---------------------------- MODULE Spec2Model ----------------------------
(***************************************************************************)
(* Model of src/rewardv2.py: reward_function(params), the DeepRacer reward *)
(* pipeline.  One call of reward_function is one behaviour: Init draws the *)
(* telemetry snapshot `params`, and each statement of lines 178-189 is one *)
(* action threading the running score `reward`.                            *)
(*                                                                         *)
(* Number representation (the code uses IEEE doubles; every quantity below *)
(* is an exact decimal, so it is modelled as a scaled integer):            *)
(*   reward                  units of 1e-8      (1.0   -> 100000000)      *)
(*   reinforce/punish factor hundredths         (1.28  -> 128)            *)
(*   speed                   hundredths of m/s  (2.25  -> 225)            *)
(*   bearing                 millidegrees       (8.0   -> 8000)           *)
(*   track_width, distance   centimetres                                   *)
(*   waypoint coordinate     half metres        ((1.5, 0.0) -> <<3, 0>>)   *)
(* Python sequences are 0-based and TLA+ sequences 1-based: the Python     *)
(* index i of a list w is read with At(w, i); closest_waypoints[0] and     *)
(* closest_waypoints[1] are closest_waypoints[1] and [2] here.             *)
(***************************************************************************)
EXTENDS Integers, Sequences, FiniteSets

VARIABLES params, pc, reward, speed_up

vars == <<params, pc, reward, speed_up>>

---------------------------------------------------------------------------
(* Tunable parameter set, lines 34-46, and the defaults of line 98.        *)

DEFAULT_REWARD == 100000000
LOWEST_REWARD == 100000
DIRECTION_THRESHOLD == 8000
PROGRESS_THRESHOLD == 75
REINFORCE_FACTOR_1 == 120
REINFORCE_FACTOR_3 == 130
REINFORCE_FACTOR_4 == 128
PUNISH_FACTOR_1 == 80
PUNISH_FACTOR_2 == 50
MIN_STEP == 3
FUTURE_STEP == 8

---------------------------------------------------------------------------
(* Arithmetic helpers.                                                     *)

Abs(x) == IF x < 0 THEN 0 - x ELSE x

Min(a, b) == IF a < b THEN a ELSE b

(* ret_reward * FACTOR: a reward in 1e-8 units times a factor in           *)
(* hundredths.  Split so that no intermediate exceeds 32 bits; exact       *)
(* whenever the decimal product has at most 8 places, which every product  *)
(* of the chain has (3 + 1 + 2 + 1 + 1 places).                            *)
Mul(ret_reward, factor) ==
    (ret_reward \div 100) * factor + ((ret_reward % 100) * factor) \div 100

(* math.degrees(math.atan2(b, a)) for 0 <= b <= a <= 15, rounded to the    *)
(* millidegree; row a + 1, column b + 1.                                   *)
AtanTable ==
    << <<0>>,
       <<0, 45000>>,
       <<0, 26565, 45000>>,
       <<0, 18435, 33690, 45000>>,
       <<0, 14036, 26565, 36870, 45000>>,
       <<0, 11310, 21801, 30964, 38660, 45000>>,
       <<0, 9462, 18435, 26565, 33690, 39806, 45000>>,
       <<0, 8130, 15945, 23199, 29745, 35538, 40601, 45000>>,
       <<0, 7125, 14036, 20556, 26565, 32005, 36870, 41186, 45000>>,
       <<0, 6340, 12529, 18435, 23962, 29055, 33690, 37875, 41634, 45000>>,
       <<0, 5711, 11310, 16699, 21801, 26565, 30964, 34992, 38660, 41987,
         45000>>,
       <<0, 5194, 10305, 15255, 19983, 24444, 28610, 32471, 36027, 39289,
         42274, 45000>>,
       <<0, 4764, 9462, 14036, 18435, 22620, 26565, 30256, 33690, 36870,
         39806, 42510, 45000>>,
       <<0, 4399, 8746, 12995, 17103, 21038, 24775, 28301, 31608, 34695,
         37569, 40236, 42709, 45000>>,
       <<0, 4086, 8130, 12095, 15945, 19654, 23199, 26565, 29745, 32735,
         35538, 38157, 40601, 42879, 45000>>,
       <<0, 3814, 7595, 11310, 14931, 18435, 21801, 25017, 28072, 30964,
         33690, 36254, 38660, 40914, 43025, 45000>> >>

(* math.degrees(math.atan2(y, x)) in millidegrees, in (-180000, 180000]:   *)
(* the first-octant table extended by the symmetries of atan2.  y - y is   *)
(* +0.0 in Python, so atan2(0, x) with x < 0 is +180.                      *)
Atan2Deg(y, x) ==
    LET ax == Abs(x)
        ay == Abs(y)
        base == IF ay <= ax THEN AtanTable[ax + 1][ay + 1]
                ELSE 90000 - AtanTable[ay + 1][ax + 1]
    IN  IF y >= 0
        THEN (IF x >= 0 THEN base ELSE 180000 - base)
        ELSE (IF x >= 0 THEN 0 - base ELSE base - 180000)

(* Python list indexing w[i]: valid for -len <= i < len, negative indices  *)
(* counting from the end; anything else raises IndexError.                 *)
InRange(w, i) == (0 - Len(w)) <= i /\ i < Len(w)

At(w, i) == IF i >= 0 THEN w[i + 1] ELSE w[Len(w) + i + 1]

---------------------------------------------------------------------------
(* Checkpoint evaluators, lines 66-168.                                    *)

(* Mutant: the hazard check leaves the score alone when the flag is false. *)
chk_exception_noop(ret_reward, exception) ==
    IF exception THEN LOWEST_REWARD ELSE ret_reward

chk_exception(ret_reward, exception) ==
    IF exception THEN LOWEST_REWARD ELSE DEFAULT_REWARD

chk_on_track(ret_reward, on_track) ==
    IF on_track THEN DEFAULT_REWARD ELSE LOWEST_REWARD

(* Mutant: the band boundaries are exclusive.                              *)
chk_center_distance_strict(ret_reward, width, distance) ==
    LET marker_1 == 10 * width
        marker_2 == 25 * width
        marker_3 == 50 * width
    IN  IF 100 * distance < marker_1 THEN Mul(ret_reward, REINFORCE_FACTOR_1)
        ELSE IF 100 * distance < marker_2 THEN Mul(ret_reward, PUNISH_FACTOR_1)
        ELSE IF 100 * distance < marker_3 THEN Mul(ret_reward, PUNISH_FACTOR_2)
        ELSE LOWEST_REWARD

(* marker_k and distance are compared in units of 1/100 cm:               *)
(* marker_1 = 0.1 * width = 10 * width hundredths, and so on.              *)
chk_center_distance(ret_reward, width, distance) ==
    LET marker_1 == 10 * width
        marker_2 == 25 * width
        marker_3 == 50 * width
    IN  IF 100 * distance <= marker_1 THEN Mul(ret_reward, REINFORCE_FACTOR_1)
        ELSE IF 100 * distance <= marker_2 THEN Mul(ret_reward, PUNISH_FACTOR_1)
        ELSE IF 100 * distance <= marker_3 THEN Mul(ret_reward, PUNISH_FACTOR_2)
        ELSE LOWEST_REWARD

(* Mutant: the look-ahead index wraps around the lap instead of clamping.  *)
FurtherIndex_wrap(waypoints, closest_waypoints, step) ==
    (closest_waypoints[2] + step) % Len(waypoints)

(* Line 102 and line 122: the index of further_waypoint.                   *)
FurtherIndex(waypoints, closest_waypoints, step) ==
    Min(Len(waypoints) - 1, closest_waypoints[2] + step)

(* Lines 104-109 and 123-125: abs(direction_degree - future_degree) for    *)
(* the further waypoint `step` ahead.                                      *)
Difference(waypoints, closest_waypoints, step) ==
    LET next_waypoint == At(waypoints, closest_waypoints[2])
        prev_waypoint == At(waypoints, closest_waypoints[1])
        further_waypoint ==
            At(waypoints, FurtherIndex(waypoints, closest_waypoints, step))
        direction_degree == Atan2Deg(prev_waypoint[2] - next_waypoint[2],
                                     prev_waypoint[1] - next_waypoint[1])
        future_degree == Atan2Deg(prev_waypoint[2] - further_waypoint[2],
                                  prev_waypoint[1] - further_waypoint[1])
    IN  Abs(direction_degree - future_degree)

(* Lines 114 and 126: diff = difference if difference < 180 else 360 - ... *)
Diff(difference) ==
    IF difference < 180000 THEN difference ELSE 360000 - difference

(* Lines 111-112 squared: np.linalg.norm(next - further) ** 2 in units of  *)
(* 0.01 m^2 (one grid step is 0.5 m, so its square is 25 hundredths).      *)
DistanceSq(waypoints, closest_waypoints, step) ==
    LET next_waypoint == At(waypoints, closest_waypoints[2])
        further_waypoint ==
            At(waypoints, FurtherIndex(waypoints, closest_waypoints, step))
        dx == next_waypoint[1] - further_waypoint[1]
        dy == next_waypoint[2] - further_waypoint[2]
    IN  25 * (dx * dx + dy * dy)

(* Mutant: the fallback looks future_step ahead again, not min_step.       *)
SpeedUp_same_horizon(waypoints, closest_waypoints, min_step, future_step) ==
    IF Difference(waypoints, closest_waypoints, future_step)
           < DIRECTION_THRESHOLD
    THEN TRUE
    ELSE IF DistanceSq(waypoints, closest_waypoints, future_step) < 121
         THEN FALSE
         ELSE Diff(Difference(waypoints, closest_waypoints, future_step))
                  < DIRECTION_THRESHOLD

(* Lines 99-128: the classification speed_up.  Line 116 tests the raw      *)
(* `difference`; line 127 tests the normalised `diff`.  distance < 1.1 is  *)
(* tested on the squares, 1.1 ** 2 = 1.21 = 121 hundredths.                *)
SpeedUp(waypoints, closest_waypoints, min_step, future_step) ==
    IF Difference(waypoints, closest_waypoints, future_step)
           < DIRECTION_THRESHOLD
    THEN TRUE
    ELSE IF DistanceSq(waypoints, closest_waypoints, future_step) < 121
         THEN FALSE
         ELSE Diff(Difference(waypoints, closest_waypoints, min_step))
                  < DIRECTION_THRESHOLD

(* Mutant: the speed thresholds are inclusive.                             *)
SpeedUpReward_inclusive(ret_reward, is_up, speed) ==
    IF is_up /\ speed >= 225 THEN Mul(ret_reward, REINFORCE_FACTOR_4)
    ELSE IF ~is_up /\ speed <= 140 THEN Mul(ret_reward, REINFORCE_FACTOR_1)
    ELSE ret_reward

(* Lines 129-133: the score effect of the classification.                  *)
SpeedUpReward(ret_reward, is_up, speed) ==
    IF is_up /\ speed > 225 THEN Mul(ret_reward, REINFORCE_FACTOR_4)
    ELSE IF ~is_up /\ speed < 140 THEN Mul(ret_reward, REINFORCE_FACTOR_1)
    ELSE ret_reward

is_speed_up(ret_reward, waypoints, closest_waypoints, speed, min_step, future_step) ==
    SpeedUpReward(ret_reward,
                  SpeedUp(waypoints, closest_waypoints, min_step, future_step),
                  speed)

(* Whether a call of is_speed_up raises IndexError: lines 100-102 always   *)
(* index, line 122 only on the short-horizon path.                         *)
IsSpeedUpRaises(waypoints, closest_waypoints, min_step, future_step) ==
    \/ ~InRange(waypoints, closest_waypoints[2])
    \/ ~InRange(waypoints, closest_waypoints[1])
    \/ ~InRange(waypoints,
                FurtherIndex(waypoints, closest_waypoints, future_step))
    \/ /\ Difference(waypoints, closest_waypoints, future_step)
              >= DIRECTION_THRESHOLD
       /\ DistanceSq(waypoints, closest_waypoints, future_step) >= 121
       /\ ~InRange(waypoints,
                   FurtherIndex(waypoints, closest_waypoints, min_step))

chk_is_left_of_center(ret_reward, is_left_of_center) ==
    IF is_left_of_center THEN Mul(ret_reward, REINFORCE_FACTOR_1)
    ELSE Mul(ret_reward, PUNISH_FACTOR_1)

(* Mutant: the progress comparison is the wrong way round.                 *)
chk_progress_flipped(ret_reward, progress) ==
    IF progress < PROGRESS_THRESHOLD THEN Mul(ret_reward, REINFORCE_FACTOR_3)
    ELSE ret_reward

chk_progress(ret_reward, progress) ==
    IF progress > PROGRESS_THRESHOLD THEN Mul(ret_reward, REINFORCE_FACTOR_3)
    ELSE ret_reward

(* Lines 177-189 as a pure function of the snapshot (for snapshots on      *)
(* which is_speed_up does not raise).                                      *)
reward_function(p) ==
    LET r0 == DEFAULT_REWARD
        r1 == chk_on_track(r0, p.all_wheels_on_track)
        r2 == chk_exception(r1, p.is_offtrack)
        r3 == chk_exception(r2, p.is_crashed)
        r4 == chk_exception(r3, p.is_reversed)
        r5 == chk_center_distance(r4, p.track_width, p.distance_from_center)
        r6 == is_speed_up(r5, p.waypoints, p.closest_waypoints, p.speed,
                          MIN_STEP, FUTURE_STEP)
        r7 == chk_is_left_of_center(r6, p.is_left_of_center)
        r8 == chk_progress(r7, p.progress)
    IN  r8

---------------------------------------------------------------------------
(* Telemetry snapshots: the inputs of one call.                            *)

(* Number of waypoints of a track.                                         *)
NumWaypoints == 12

(* Waypoint lists: NumWaypoints points one grid step (0.5 m) apart.  The   *)
(* track starts at the origin heading east; after Python index `bend` it   *)
(* goes on straight, drifts one step to the left or right of its line, or  *)
(* turns a right angle to the left or right.  `orient` quarter turns       *)
(* rotate the whole track, so that it heads east, north, west or south.    *)
Shapes == {"straight", "drift_left", "drift_right", "turn_left", "turn_right"}

Rot(pt, orient) ==
    CASE orient = 0 -> pt
      [] orient = 1 -> <<0 - pt[2], pt[1]>>
      [] orient = 2 -> <<0 - pt[1], 0 - pt[2]>>
      [] orient = 3 -> <<pt[2], 0 - pt[1]>>

BasePoint(i, shape, bend) ==
    IF i <= bend \/ shape = "straight" THEN <<i, 0>>
    ELSE CASE shape = "drift_left" -> <<i, 1>>
           [] shape = "drift_right" -> <<i, 0 - 1>>
           [] shape = "turn_left" -> <<bend, i - bend>>
           [] shape = "turn_right" -> <<bend, bend - i>>

Track(orient, shape, bend) ==
    [n \in 1..NumWaypoints |-> Rot(BasePoint(n - 1, shape, bend), orient)]

Bends == 1..(NumWaypoints - 2)

AllTracks ==
    {Track(o, "straight", 1) : o \in 0..3}
        \cup {Track(o, s, b) : o \in 0..3, s \in Shapes \ {"straight"}, b \in Bends}

(* closest_waypoints: consecutive indices, or (last, 0) at the wrap        *)
(* boundary of the lap.                                                    *)
ClosestPairs ==
    {<<i, i + 1>> : i \in 0..(NumWaypoints - 2)} \cup {<<NumWaypoints - 1, 0>>}

Snapshots(wheels, hazards, reversed, sides, widths, distances, speeds, progresses, tracks, pairs) ==
    [all_wheels_on_track : wheels, is_offtrack : hazards,
     is_crashed : hazards, is_reversed : reversed,
     is_left_of_center : sides,
     track_width : widths, distance_from_center : distances,
     speed : speeds, progress : progresses,
     waypoints : tracks, closest_waypoints : pairs]

Widths == {60, 100}

Distances == {0, 6, 10, 15, 25, 30, 50, 51}

Speeds == {139, 140, 225, 300}

Progresses == {75, 80}

(* The tracks of the composition runs: a straight, a drift and a turn,     *)
(* heading east and north, with the agent at waypoints (1, 2).             *)
ChainTracks ==
    {Track(o, s, 3) : o \in {0, 1}, s \in {"straight", "drift_left", "turn_left"}}

ChainPairs == {<<1, 2>>}

---------------------------------------------------------------------------
(* The call: lines 177-189, one action per statement.                      *)

InitCall ==
    /\ pc = "chk_on_track"
    /\ reward = DEFAULT_REWARD
    /\ speed_up = FALSE

(* Every flag, band and speed, on the tracks of ChainTracks.               *)
Init ==
    /\ params \in Snapshots(BOOLEAN, BOOLEAN, BOOLEAN, BOOLEAN, Widths,
                            Distances, Speeds, Progresses,
                            ChainTracks, ChainPairs)
    /\ InitCall

(* Every track and every closest pair, on track and left of the centre,   *)
(* with no hazard except is_reversed.                                      *)
InitLookAhead ==
    /\ params \in Snapshots({TRUE}, {FALSE}, BOOLEAN, {TRUE}, {100}, {0, 25},
                            Speeds, {80}, AllTracks, ClosestPairs)
    /\ InitCall

ChkOnTrack ==
    /\ pc = "chk_on_track"
    /\ reward' = chk_on_track(reward, params.all_wheels_on_track)
    /\ pc' = "chk_offtrack"
    /\ UNCHANGED <<params, speed_up>>

ChkOfftrack ==
    /\ pc = "chk_offtrack"
    /\ reward' = chk_exception(reward, params.is_offtrack)
    /\ pc' = "chk_crashed"
    /\ UNCHANGED <<params, speed_up>>

ChkCrashed ==
    /\ pc = "chk_crashed"
    /\ reward' = chk_exception(reward, params.is_crashed)
    /\ pc' = "chk_reversed"
    /\ UNCHANGED <<params, speed_up>>

ChkReversed ==
    /\ pc = "chk_reversed"
    /\ reward' = chk_exception(reward, params.is_reversed)
    /\ pc' = "chk_center_distance"
    /\ UNCHANGED <<params, speed_up>>

ChkCenterDistance ==
    /\ pc = "chk_center_distance"
    /\ reward' = chk_center_distance(reward, params.track_width,
                                     params.distance_from_center)
    /\ pc' = "is_speed_up"
    /\ UNCHANGED <<params, speed_up>>

IsSpeedUp ==
    /\ pc = "is_speed_up"
    /\ IF IsSpeedUpRaises(params.waypoints, params.closest_waypoints,
                          MIN_STEP, FUTURE_STEP)
       THEN /\ pc' = "raised"
            /\ UNCHANGED <<reward, speed_up>>
       ELSE /\ speed_up' = SpeedUp(params.waypoints, params.closest_waypoints,
                                   MIN_STEP, FUTURE_STEP)
            /\ reward' = is_speed_up(reward, params.waypoints,
                                     params.closest_waypoints, params.speed,
                                     MIN_STEP, FUTURE_STEP)
            /\ pc' = "chk_is_left_of_center"
    /\ UNCHANGED params

ChkIsLeftOfCenter ==
    /\ pc = "chk_is_left_of_center"
    /\ reward' = chk_is_left_of_center(reward, params.is_left_of_center)
    /\ pc' = "chk_progress"
    /\ UNCHANGED <<params, speed_up>>

ChkProgress ==
    /\ pc = "chk_progress"
    /\ reward' = chk_progress(reward, params.progress)
    /\ pc' = "return"
    /\ UNCHANGED <<params, speed_up>>

(* Line 189: return float(reward).                                         *)
Return ==
    /\ pc = "return"
    /\ pc' = "done"
    /\ UNCHANGED <<params, reward, speed_up>>

Next ==
    \/ ChkOnTrack
    \/ ChkOfftrack
    \/ ChkCrashed
    \/ ChkReversed
    \/ ChkCenterDistance
    \/ IsSpeedUp
    \/ ChkIsLeftOfCenter
    \/ ChkProgress
    \/ Return

Spec == Init /\ [][Next]_vars

SpecLookAhead == InitLookAhead /\ [][Next]_vars

(* The stepwise call computes reward_function.                             *)
CallComputesRewardFunction ==
    pc = "done" => reward = reward_function(params)

---------------------------------------------------------------------------
(* Properties.                                                             *)

Returned == pc = "done"

(* The states after the call of is_speed_up on line 184 returned:          *)
(* speed_up holds its classification.                                      *)
AfterIsSpeedUp == pc \in {"chk_is_left_of_center", "chk_progress", "return", "done"}

Hazard == params.is_offtrack \/ params.is_crashed \/ params.is_reversed

(* The bearing difference normalised as the specification words it:        *)
(* 360 - difference when the raw difference exceeds 180.                   *)
Normalized(difference) ==
    IF difference > 180000 THEN 360000 - difference ELSE difference

LongDifference == Difference(params.waypoints, params.closest_waypoints, 8)

ShortDifference == Difference(params.waypoints, params.closest_waypoints, 3)

(* The far waypoint of the long horizon is less than 1.1 m from the next   *)
(* waypoint.                                                               *)
FarIsNear == DistanceSq(params.waypoints, params.closest_waypoints, 8) < 121

(* C1: whenever is_offtrack, is_crashed or is_reversed is set, the         *)
(* returned reward is exactly LOWEST_REWARD (0.001), whatever the other    *)
(* fields are.                                                             *)
C1_HazardReturnsFloor ==
    (Returned /\ Hazard) => reward = 100000

(* C2: the returned reward is non-negative and never below LOWEST_REWARD   *)
(* (0.001).                                                                *)
C2_NeverBelowFloor ==
    Returned => (reward >= 0 /\ reward >= 100000)

(* C3: for two snapshots that differ only in distance_from_center, the     *)
(* one further from the centre never gets the larger reward, for every     *)
(* value of the other fields.                                              *)
C3_MonotoneInDistance ==
    Returned =>
        \A d2 \in Distances :
            d2 >= params.distance_from_center =>
                reward_function([params EXCEPT !.distance_from_center = d2])
                    <= reward

(* Scenario A: centred, all wheels on track, no hazard, speed 3.0,         *)
(* progress 80 (steering_angle and heading are read by no evaluator of     *)
(* the chain).                                                             *)
ScenarioA ==
    /\ params.distance_from_center = 0
    /\ params.all_wheels_on_track
    /\ ~params.is_offtrack /\ ~params.is_crashed /\ ~params.is_reversed
    /\ params.speed = 300
    /\ params.progress = 80

(* C4: in scenario A the returned reward is strictly greater than          *)
(* DEFAULT_REWARD (1.0), for every is_left_of_center and every look-ahead  *)
(* classification.                                                         *)
C4_ScenarioAAboveDefault ==
    (Returned /\ ScenarioA) => reward > 100000000

C4_Witness ==
    Returned /\ ScenarioA /\ ~params.is_left_of_center /\ ~speed_up

(* C5: chk_center_distance multiplies the incoming score by 1.2 at         *)
(* exactly 0.1 * width, by 0.8 at exactly 0.25 * width and by 0.5 at       *)
(* exactly 0.5 * width, and replaces it by LOWEST_REWARD exactly when the  *)
(* distance is strictly greater than 0.5 * width.                          *)
C5_BandBoundariesInclusive ==
    [][pc = "chk_center_distance" =>
         LET d == 100 * params.distance_from_center
             w == params.track_width
         IN  /\ (d = 10 * w => reward' = Mul(reward, 120))
             /\ (d = 25 * w => reward' = Mul(reward, 80))
             /\ (d = 50 * w => reward' = Mul(reward, 50))
             /\ (reward' = 100000 <=> d > 50 * w)]_vars

C5_Witness ==
    /\ pc = "is_speed_up"
    /\ 100 * params.distance_from_center = 50 * params.track_width
    /\ reward = 50000000

(* C6: whenever the normalised long-horizon bearing difference is below    *)
(* DIRECTION_THRESHOLD (8 degrees), is_speed_up classifies the segment     *)
(* "speed up".                                                             *)
C6_NormalizedLongDifferenceDecides ==
    (AfterIsSpeedUp /\ Normalized(LongDifference) < 8000) => speed_up

(* C7: when the long-horizon difference is not below DIRECTION_THRESHOLD,  *)
(* a far waypoint less than 1.1 m from the next waypoint gives "do not     *)
(* speed up", and otherwise the classification is "speed up" exactly when  *)
(* the normalised short-horizon difference is below DIRECTION_THRESHOLD.   *)
(* Stated for the raw long-horizon difference, which is not below the      *)
(* threshold whenever the normalised one is not.                           *)
C7_TwoTierFallback ==
    (AfterIsSpeedUp /\ ~(LongDifference < 8000)) =>
        /\ (FarIsNear => ~speed_up)
        /\ (~FarIsNear => (speed_up <=> Normalized(ShortDifference) < 8000))

C7_Witness ==
    /\ AfterIsSpeedUp
    /\ Normalized(LongDifference) >= 8000
    /\ ~FarIsNear
    /\ speed_up

(* C8: is_speed_up returns the incoming score times 1.28 when the          *)
(* classification is "speed up" and speed > 2.25, times 1.2 when it is     *)
(* "do not speed up" and speed < 1.4, and the incoming score otherwise;    *)
(* it never lowers the score.                                              *)
C8_ScoreEffect ==
    [][(pc = "is_speed_up" /\ pc' # "raised") =>
         /\ reward' = (IF speed_up' /\ params.speed > 225
                           THEN Mul(reward, 128)
                       ELSE IF ~speed_up' /\ params.speed < 140
                           THEN Mul(reward, 120)
                       ELSE reward)
         /\ reward' >= reward]_vars

C8_Witness ==
    /\ pc = "chk_is_left_of_center"
    /\ speed_up
    /\ params.speed = 225
    /\ params.distance_from_center = 25
    /\ reward = 80000000

(* C9: the far waypoint index is min(len - 1, closest_waypoints[1] +      *)
(* step) for both horizons: a valid index, never smaller than              *)
(* closest_waypoints[1], never wrapped to the start of the list; no        *)
(* waypoint access raises.                                                 *)
C9_ClampNeverWraps ==
    /\ pc # "raised"
    /\ \A step \in {3, 8} :
           LET last == Len(params.waypoints) - 1
               ahead == params.closest_waypoints[2] + step
               i == FurtherIndex(params.waypoints, params.closest_waypoints,
                                 step)
           IN  /\ i = (IF ahead > last THEN last ELSE ahead)
               /\ i \in 0..last
               /\ i >= params.closest_waypoints[2]

(* The call returned with the long horizon clamped to the last waypoint    *)
(* (closest_waypoints[1] + 8 is past the end) and the short-horizon index  *)
(* of line 122 read as well.                                               *)
C9_Witness ==
    /\ Returned
    /\ params.closest_waypoints[2] + 8 > Len(params.waypoints) - 1
    /\ FurtherIndex(params.waypoints, params.closest_waypoints, 8)
           = Len(params.waypoints) - 1
    /\ LongDifference >= 8000
    /\ ~FarIsNear

(* C10: the score entering chk_center_distance is LOWEST_REWARD if         *)
(* is_reversed and DEFAULT_REWARD otherwise, and snapshots that differ     *)
(* only in all_wheels_on_track, is_offtrack and is_crashed get the same    *)
(* reward.                                                                 *)
C10_OnlyReversedMatters ==
    /\ pc = "chk_center_distance" =>
           reward = (IF params.is_reversed THEN 100000 ELSE 100000000)
    /\ Returned =>
           \A wheels, offtrack, crashed \in BOOLEAN :
               reward_function([params EXCEPT
                                    !.all_wheels_on_track = wheels,
                                    !.is_offtrack = offtrack,
                                    !.is_crashed = crashed]) = reward

C10_Witness ==
    /\ Returned
    /\ ~params.all_wheels_on_track
    /\ params.is_offtrack
    /\ params.is_crashed
    /\ ~params.is_reversed
    /\ reward > 100000000

===========================================================================
